---- MODULE Spec2Model ----
(***************************************************************************)
(* Model of src/src/wallet.rs: the windowed history iterators              *)
(* Wallet::deposit_history_quick and Wallet::withdraw_history_quick, and   *)
(* the validated request Wallet::submit_uae_deposit_questionnaire.         *)
(*                                                                         *)
(* An instant (DateTime<Utc>) or a Duration is the triple [d, ms, ns]       *)
(* standing for (d * MsPerDay + ms) milliseconds and ns nanoseconds, with  *)
(* 0 <= ms < MsPerDay and 0 <= ns < NsPerMs, d counted from 1970-01-01.    *)
(* A signed millisecond count (i64) is the pair [d, ms]; an unsigned 64-bit *)
(* value is the triple [wrap, d, ms] standing for                          *)
(* wrap * 2^64 + d * MsPerDay + ms, so that the cast of a negative i64     *)
(* (wrap = 1, d < 0) is represented exactly.                               *)
(*                                                                         *)
(* chrono's DateTime - Duration panics when the result is outside          *)
(* [DateTime::MIN_UTC, DateTime::MAX_UTC]; Sub yields Overflowed there and *)
(* the call that evaluated it ends in the position "panicked".            *)
(***************************************************************************)
EXTENDS Integers, Sequences, FiniteSets, TLC

(* ------------------------------ bounds --------------------------------- *)

\* Longest requested span, in 90-day intervals.
MaxSpan == 3

\* Largest number of records one window's page holds.
MaxRecords == 2

(* ------------------------- program constants --------------------------- *)

DEFAULT_WALLET_HISTORY_QUERY_INTERVAL_DAYS == 90

SAPI_V1_CAPITAL_DEPOSIT_HISREC == "/sapi/v1/capital/deposit/hisrec"

SAPI_V1_CAPITAL_WITHDRAW_HISTORY == "/sapi/v1/capital/withdraw/history"

UAE_ENDPOINT == "/sapi/v1/localentity/deposit/provide-info"

\* Milliseconds in the day of chrono's Duration::days.
MsPerDay == 24 * 60 * 60 * 1000

\* Nanoseconds in a millisecond.
NsPerMs == 1000 * 1000

\* The days of chrono's DateTime::<Utc>::MIN_UTC (-262143-01-01T00:00:00Z)
\* and DateTime::<Utc>::MAX_UTC (+262142-12-31T23:59:59.999999999Z).
MIN_UTC_DAY == -96465292

MAX_UTC_DAY == 95026236

(* ------------------------ time and integer casts ----------------------- *)

\* Option<T>: None is the empty sequence, Some(x) the one-element sequence.
None == << >>

Some(x) == << x >>

IsSome(o) == Len(o) = 1

UnwrapOr(o, dflt) == IF IsSome(o) THEN o[1] ELSE dflt

\* chrono::Duration::days(n)
Days(n) == [d |-> n, ms |-> 0, ns |-> 0]

\* The difference t - dur of two triples, with the borrows.
Minus(t, dur) ==
  LET ns0 == t.ns - dur.ns
      bn == IF ns0 < 0 THEN 1 ELSE 0
      ms0 == t.ms - dur.ms - bn
      bm == IF ms0 < 0 THEN 1 ELSE 0
  IN [d |-> t.d - dur.d - bm, ms |-> ms0 + bm * MsPerDay, ns |-> ns0 + bn * NsPerMs]

\* t is a value of DateTime<Utc>: MIN_UTC <= t <= MAX_UTC.
InRange(t) == MIN_UTC_DAY <= t.d /\ t.d <= MAX_UTC_DAY

\* What Sub yields where the code panics with "`DateTime - TimeDelta`
\* overflowed"; no instant has negative nanoseconds.
Overflowed == [d |-> 0, ms |-> 0, ns |-> -1]

\* DateTime<Utc> - Duration (std::ops::Sub): checked_sub_signed, and the
\* panic of its expect when the difference is not a DateTime<Utc>.
Sub(t, dur) == IF InRange(Minus(t, dur)) THEN Minus(t, dur) ELSE Overflowed

\* DateTime<Utc> > DateTime<Utc>
After(a, b) ==
  \/ a.d > b.d
  \/ a.d = b.d /\ a.ms > b.ms
  \/ a.d = b.d /\ a.ms = b.ms /\ a.ns > b.ns

\* DateTime::timestamp_millis(): the signed count of whole milliseconds
\* since the epoch (negative iff d < 0); the nanoseconds are cut off.
TimestampMillis(t) == [d |-> t.d, ms |-> t.ms]

\* `as u64` on an i64: the value modulo 2^64.
AsU64(m) == [wrap |-> IF m.d < 0 THEN 1 ELSE 0, d |-> m.d, ms |-> m.ms]

\* a < b on u64 values.
U64Less(a, b) ==
  \/ a.wrap < b.wrap
  \/ a.wrap = b.wrap /\ a.d < b.d
  \/ a.wrap = b.wrap /\ a.d = b.d /\ a.ms < b.ms

\* b - a <= dur on u64 millisecond values.
U64SpanAtMost(a, b, dur) ==
  /\ a.wrap = b.wrap
  /\ ~After(Minus([d |-> b.d, ms |-> b.ms, ns |-> 0],
                 [d |-> a.d, ms |-> a.ms, ns |-> 0]), dur)

(* ------------------------------- inputs -------------------------------- *)

CallIds == {1, 2}

\* Instants a caller passes as start_from, and readings of Utc::now().
Instants ==
  { [d |-> 30, ms |-> 0, ns |-> 0], [d |-> 89, ms |-> MsPerDay - 1, ns |-> 0],
    [d |-> 90, ms |-> 0, ns |-> 0], [d |-> 200, ms |-> 5, ns |-> 0],
    [d |-> 20756, ms |-> 0, ns |-> 0], [d |-> 20756, ms |-> 43200123, ns |-> 7],
    [d |-> MIN_UTC_DAY + 100, ms |-> 0, ns |-> 0],
    [d |-> MIN_UTC_DAY + 50, ms |-> 0, ns |-> 0],
    [d |-> MAX_UTC_DAY, ms |-> MsPerDay - 1, ns |-> NsPerMs - 1] }

Clock == { [d |-> 20756, ms |-> 25200000, ns |-> 456789] }

\* A span, in 90-day intervals, that reaches from any instant of DateTime<Utc>
\* to outside its range.
LongSpan == (MAX_UTC_DAY - MIN_UTC_DAY) \div DEFAULT_WALLET_HISTORY_QUERY_INTERVAL_DAYS + 1

\* Durations a caller passes as total_duration.
Durations ==
  { Days(k * DEFAULT_WALLET_HISTORY_QUERY_INTERVAL_DAYS + e) :
      k \in 0 .. MaxSpan, e \in {-1, 0, 1} }
  \cup { [d |-> DEFAULT_WALLET_HISTORY_QUERY_INTERVAL_DAYS, ms |-> 0, ns |-> 1],
         [d |-> 2 * DEFAULT_WALLET_HISTORY_QUERY_INTERVAL_DAYS - 1,
          ms |-> MsPerDay - 1, ns |-> NsPerMs - 1],
         Days(LongSpan * DEFAULT_WALLET_HISTORY_QUERY_INTERVAL_DAYS),
         Days(LongSpan * DEFAULT_WALLET_HISTORY_QUERY_INTERVAL_DAYS + 1),
         Days(0 - LongSpan * DEFAULT_WALLET_HISTORY_QUERY_INTERVAL_DAYS) }

\* Caller-supplied queries: the time bounds and the remaining fields.
CallerBounds == { None, Some([wrap |-> 0, d |-> 7, ms |-> 0]) }

Queries ==
  { [coin |-> None, start_time |-> None, end_time |-> None] }
  \cup { [coin |-> Some("BTC"), start_time |-> b, end_time |-> b] :
           b \in CallerBounds \ {None} }

\* A page of records returned for one window.
Pages == { [i \in 1 .. n |-> i] : n \in 0 .. MaxRecords }

\* Values of UaeQuestionnaire.deposit_originator and .receive_from.
Codes == 0 .. 2

(* -------------------------------- state -------------------------------- *)

VARIABLES
  pc,                    \* position of each call
  op,                    \* the method each call runs
  args,                  \* the arguments the caller passed
  query,                 \* the call's own (mutable) query
  result,                \* the call's accumulated batches
  end_at,                \* cutoff start_from - total_duration
  current_period_start,
  current_period_end,
  requests,              \* signed requests the call has issued, with replies
  ret                    \* what the call returned to its caller

vars == << pc, op, args, query, result, end_at, current_period_start,
           current_period_end, requests, ret >>

NoTime == [d |-> 0, ms |-> 0, ns |-> 0]

\* DepositHistoryQuery::default() / WithdrawalHistoryQuery::default()
NoQuery == [coin |-> None, start_time |-> None, end_time |-> None]

NoArgs == [start_from |-> None, total_duration |-> None, query |-> NoQuery,
           deposit_originator |-> 0, receive_from |-> 0]

NoRet == [status |-> "none", value |-> << >>, err |-> ""]

Pending == [status |-> "pending", records |-> << >>]

Init ==
  /\ pc = [c \in CallIds |-> "idle"]
  /\ op = [c \in CallIds |-> "none"]
  /\ args = [c \in CallIds |-> NoArgs]
  /\ query = [c \in CallIds |-> NoQuery]
  /\ result = [c \in CallIds |-> << >>]
  /\ end_at = [c \in CallIds |-> NoTime]
  /\ current_period_start = [c \in CallIds |-> NoTime]
  /\ current_period_end = [c \in CallIds |-> NoTime]
  /\ requests = [c \in CallIds |-> << >>]
  /\ ret = [c \in CallIds |-> NoRet]

(* ---------------------- signed-call collaborator ----------------------- *)

\* A signed request put on the wire by get_signed_p / put_signed_p, with
\* the parameters as they were serialized and the reply still pending.
Request(method, path, params) ==
  [method |-> method, path |-> path, params |-> params, reply |-> Pending]

\* The request log with the reply to the request in flight filled in.
Replied(log, reply) == [log EXCEPT ![Len(log)].reply = reply]

OkReply(page) == [status |-> "ok", records |-> page]

ErrReply == [status |-> "err", records |-> << >>]

\* Ok(v) and Err(e) of Result<T>.
Ok(v) == [status |-> "ok", value |-> v, err |-> ""]

Err(e) == [status |-> "err", value |-> << >>, err |-> e]

(* ------------------------ deposit_history_quick ------------------------ *)

\* Variant: bounds the caller has set are kept.
DepositWindowQueryKeep(q, period_start, period_end) ==
  [q EXCEPT !.start_time = IF IsSome(@) THEN @
                           ELSE Some(AsU64(TimestampMillis(period_start))),
            !.end_time = IF IsSome(@) THEN @
                         ELSE Some(AsU64(TimestampMillis(period_end)))]

\* The query as modified for one window (wallet.rs 336-337).
DepositWindowQuery(q, period_start, period_end) ==
  [q EXCEPT !.start_time = Some(AsU64(TimestampMillis(period_start))),
            !.end_time = Some(AsU64(TimestampMillis(period_end)))]

\* Variant: the batch is appended whether or not the page is empty.
DepositPushAlways(res, period_start, period_end, records) ==
  Append(res, [start_at |-> period_start, end_at |-> period_end,
               records |-> records])

\* Variant: the batch is inserted at the front of the list.
DepositPushFront(res, period_start, period_end, records) ==
  IF records # << >>
    THEN << [start_at |-> period_start, end_at |-> period_end,
             records |-> records] >> \o res
    ELSE res

\* The result list after one window's records (wallet.rs 342-349).
DepositPush(res, period_start, period_end, records) ==
  IF records # << >>
    THEN Append(res, [start_at |-> period_start, end_at |-> period_end,
                      records |-> records])
    ELSE res

\* The loop condition (wallet.rs 334).
DepositContinue(period_end, cutoff) == After(period_end, cutoff)

\* Entry: wallet.rs 324-331. When a subtraction of line 330 or 331 panics the
\* call unwinds before any query: its locals are dropped, nothing is returned.
DepositCall(c, q, start_from, total_duration, now) ==
  /\ pc[c] = "idle"
  /\ LET total == UnwrapOr(total_duration, Days(DEFAULT_WALLET_HISTORY_QUERY_INTERVAL_DAYS))
         interval == Days(DEFAULT_WALLET_HISTORY_QUERY_INTERVAL_DAYS)
         period_end == UnwrapOr(start_from, now)
         cutoff == Sub(period_end, total)
         period_start == Sub(period_end, interval)
     IN IF cutoff = Overflowed \/ period_start = Overflowed
          THEN /\ pc' = [pc EXCEPT ![c] = "panicked"]
               /\ UNCHANGED << result, current_period_end, end_at,
                               current_period_start >>
          ELSE /\ result' = [result EXCEPT ![c] = << >>]
               /\ current_period_end' = [current_period_end EXCEPT ![c] = period_end]
               /\ end_at' = [end_at EXCEPT ![c] = cutoff]
               /\ current_period_start' =
                    [current_period_start EXCEPT ![c] = period_start]
               /\ pc' = [pc EXCEPT ![c] = "loop"]
  /\ op' = [op EXCEPT ![c] = "deposit_history_quick"]
  /\ args' = [args EXCEPT ![c] = [NoArgs EXCEPT !.start_from = start_from,
                                                !.total_duration = total_duration,
                                                !.query = q]]
  /\ query' = [query EXCEPT ![c] = q]
  /\ UNCHANGED << requests, ret >>

\* Variant: the next query is issued without awaiting the one in flight.
DepositIssueEager(c) ==
  /\ pc[c] \in {"loop", "await"}
  /\ op[c] = "deposit_history_quick"
  /\ DepositContinue(current_period_end[c], end_at[c])
  /\ LET q == DepositWindowQuery(query[c], current_period_start[c],
                                 current_period_end[c])
     IN /\ query' = [query EXCEPT ![c] = q]
        /\ requests' = [requests EXCEPT ![c] =
             Append(@, Request("GET", SAPI_V1_CAPITAL_DEPOSIT_HISREC, q))]
  /\ pc' = [pc EXCEPT ![c] = "await"]
  /\ UNCHANGED << op, args, result, end_at, current_period_start,
                  current_period_end, ret >>

\* Loop head taken: set the window and issue deposit_history (334-340).
DepositIssue(c) ==
  /\ pc[c] = "loop"
  /\ op[c] = "deposit_history_quick"
  /\ DepositContinue(current_period_end[c], end_at[c])
  /\ LET q == DepositWindowQuery(query[c], current_period_start[c],
                                 current_period_end[c])
     IN /\ query' = [query EXCEPT ![c] = q]
        /\ requests' = [requests EXCEPT ![c] =
             Append(@, Request("GET", SAPI_V1_CAPITAL_DEPOSIT_HISREC, q))]
  /\ pc' = [pc EXCEPT ![c] = "await"]
  /\ UNCHANGED << op, args, result, end_at, current_period_start,
                  current_period_end, ret >>

\* Variant: the start cursor steps back by twice the interval.
DepositReplyOkSkewed(c, records) ==
  /\ pc[c] = "await"
  /\ op[c] = "deposit_history_quick"
  /\ requests' = [requests EXCEPT ![c] = Replied(@, OkReply(records))]
  /\ LET interval == Days(DEFAULT_WALLET_HISTORY_QUERY_INTERVAL_DAYS)
         period_start == Sub(current_period_start[c], Days(2 * DEFAULT_WALLET_HISTORY_QUERY_INTERVAL_DAYS))
         period_end == Sub(current_period_end[c], interval)
     IN IF period_start = Overflowed \/ period_end = Overflowed
          THEN /\ result' = [result EXCEPT ![c] = << >>]
               /\ pc' = [pc EXCEPT ![c] = "panicked"]
               /\ UNCHANGED << current_period_start, current_period_end >>
          ELSE /\ result' = [result EXCEPT ![c] =
                    DepositPush(@, current_period_start[c], current_period_end[c],
                                records)]
               /\ current_period_start' =
                    [current_period_start EXCEPT ![c] = period_start]
               /\ current_period_end' = [current_period_end EXCEPT ![c] = period_end]
               /\ pc' = [pc EXCEPT ![c] = "loop"]
  /\ UNCHANGED << op, args, query, end_at, ret >>

\* Variant: the window cursors are one pair shared by all calls.
DepositReplyOkShared(c, records) ==
  /\ pc[c] = "await"
  /\ op[c] = "deposit_history_quick"
  /\ requests' = [requests EXCEPT ![c] = Replied(@, OkReply(records))]
  /\ LET interval == Days(DEFAULT_WALLET_HISTORY_QUERY_INTERVAL_DAYS)
         period_start == Sub(current_period_start[c], interval)
         period_end == Sub(current_period_end[c], interval)
     IN IF period_start = Overflowed \/ period_end = Overflowed
          THEN /\ result' = [result EXCEPT ![c] = << >>]
               /\ pc' = [pc EXCEPT ![c] = "panicked"]
               /\ UNCHANGED << current_period_start, current_period_end >>
          ELSE /\ result' = [result EXCEPT ![c] =
                    DepositPush(@, current_period_start[c], current_period_end[c],
                                records)]
               /\ current_period_start' = [o \in CallIds |->
                    Minus(current_period_start[o], interval)]
               /\ current_period_end' = [o \in CallIds |->
                    Minus(current_period_end[o], interval)]
               /\ pc' = [pc EXCEPT ![c] = "loop"]
  /\ UNCHANGED << op, args, query, end_at, ret >>

\* deposit_history returned Ok(records): 340-352. When the subtraction of
\* line 351 panics the call unwinds after the push: its locals, result among
\* them, are dropped and nothing is returned.
DepositReplyOk(c, records) ==
  /\ pc[c] = "await"
  /\ op[c] = "deposit_history_quick"
  /\ requests' = [requests EXCEPT ![c] = Replied(@, OkReply(records))]
  /\ LET interval == Days(DEFAULT_WALLET_HISTORY_QUERY_INTERVAL_DAYS)
         period_start == Sub(current_period_start[c], interval)
         period_end == Sub(current_period_end[c], interval)
     IN IF period_start = Overflowed \/ period_end = Overflowed
          THEN /\ result' = [result EXCEPT ![c] = << >>]
               /\ pc' = [pc EXCEPT ![c] = "panicked"]
               /\ UNCHANGED << current_period_start, current_period_end >>
          ELSE /\ result' = [result EXCEPT ![c] =
                    DepositPush(@, current_period_start[c], current_period_end[c],
                                records)]
               /\ current_period_start' =
                    [current_period_start EXCEPT ![c] = period_start]
               /\ current_period_end' = [current_period_end EXCEPT ![c] = period_end]
               /\ pc' = [pc EXCEPT ![c] = "loop"]
  /\ UNCHANGED << op, args, query, end_at, ret >>

\* Variant: a failed window returns what was accumulated so far.
DepositReplyErrPartial(c) ==
  /\ pc[c] = "await"
  /\ op[c] = "deposit_history_quick"
  /\ requests' = [requests EXCEPT ![c] = Replied(@, ErrReply)]
  /\ ret' = [ret EXCEPT ![c] = Ok(result[c])]
  /\ pc' = [pc EXCEPT ![c] = "done"]
  /\ UNCHANGED << op, args, query, result, end_at, current_period_start,
                  current_period_end >>

\* Variant: a failed window is queried again.
DepositReplyErrRetry(c) ==
  /\ pc[c] = "await"
  /\ op[c] = "deposit_history_quick"
  /\ requests' = [requests EXCEPT ![c] = Replied(@, ErrReply)]
  /\ pc' = [pc EXCEPT ![c] = "loop"]
  /\ UNCHANGED << op, args, query, result, end_at, current_period_start,
                  current_period_end, ret >>

\* deposit_history returned Err: the `?` of line 340 returns it; the
\* locals, result among them, are dropped.
DepositReplyErr(c) ==
  /\ pc[c] = "await"
  /\ op[c] = "deposit_history_quick"
  /\ requests' = [requests EXCEPT ![c] = Replied(@, ErrReply)]
  /\ ret' = [ret EXCEPT ![c] = Err("remote")]
  /\ result' = [result EXCEPT ![c] = << >>]
  /\ pc' = [pc EXCEPT ![c] = "done"]
  /\ UNCHANGED << op, args, query, end_at, current_period_start,
                  current_period_end >>

\* Loop head not taken: Ok(result) (334, 355).
DepositReturn(c) ==
  /\ pc[c] = "loop"
  /\ op[c] = "deposit_history_quick"
  /\ ~DepositContinue(current_period_end[c], end_at[c])
  /\ ret' = [ret EXCEPT ![c] = Ok(result[c])]
  /\ pc' = [pc EXCEPT ![c] = "done"]
  /\ UNCHANGED << op, args, query, result, end_at, current_period_start,
                  current_period_end, requests >>

\* Variant: dropping the future hands the accumulated list to the caller.
DepositCancelCommit(c) ==
  /\ pc[c] = "await"
  /\ op[c] = "deposit_history_quick"
  /\ ret' = [ret EXCEPT ![c] = Ok(result[c])]
  /\ pc' = [pc EXCEPT ![c] = "dropped"]
  /\ UNCHANGED << op, args, query, result, end_at, current_period_start,
                  current_period_end, requests >>

\* The caller drops the future while it is suspended at the await of line
\* 340: the locals are dropped and the body never resumes.
DepositCancel(c) ==
  /\ pc[c] = "await"
  /\ op[c] = "deposit_history_quick"
  /\ result' = [result EXCEPT ![c] = << >>]
  /\ pc' = [pc EXCEPT ![c] = "dropped"]
  /\ UNCHANGED << op, args, query, end_at, current_period_start,
                  current_period_end, requests, ret >>

(* ----------------------- withdraw_history_quick ------------------------ *)

\* The query as modified for one window (wallet.rs 402-403).
WithdrawWindowQuery(q, period_start, period_end) ==
  [q EXCEPT !.start_time = Some(AsU64(TimestampMillis(period_start))),
            !.end_time = Some(AsU64(TimestampMillis(period_end)))]

\* The result list after one window's records (wallet.rs 407-414).
WithdrawPush(res, period_start, period_end, records) ==
  IF records # << >>
    THEN Append(res, [start_at |-> period_start, end_at |-> period_end,
                      records |-> records])
    ELSE res

\* Variant: the loop condition with >= in place of >.
WithdrawContinueInclusive(period_end, cutoff) == ~After(cutoff, period_end)

\* The loop condition (wallet.rs 401).
WithdrawContinue(period_end, cutoff) == After(period_end, cutoff)

\* Entry: wallet.rs 391-398. When a subtraction of line 397 or 398 panics the
\* call unwinds before any query: its locals are dropped, nothing is returned.
WithdrawCall(c, q, start_from, total_duration, now) ==
  /\ pc[c] = "idle"
  /\ LET total == UnwrapOr(total_duration, Days(DEFAULT_WALLET_HISTORY_QUERY_INTERVAL_DAYS))
         interval == Days(DEFAULT_WALLET_HISTORY_QUERY_INTERVAL_DAYS)
         period_end == UnwrapOr(start_from, now)
         cutoff == Sub(period_end, total)
         period_start == Sub(period_end, interval)
     IN IF cutoff = Overflowed \/ period_start = Overflowed
          THEN /\ pc' = [pc EXCEPT ![c] = "panicked"]
               /\ UNCHANGED << result, current_period_end, end_at,
                               current_period_start >>
          ELSE /\ result' = [result EXCEPT ![c] = << >>]
               /\ current_period_end' = [current_period_end EXCEPT ![c] = period_end]
               /\ end_at' = [end_at EXCEPT ![c] = cutoff]
               /\ current_period_start' =
                    [current_period_start EXCEPT ![c] = period_start]
               /\ pc' = [pc EXCEPT ![c] = "loop"]
  /\ op' = [op EXCEPT ![c] = "withdraw_history_quick"]
  /\ args' = [args EXCEPT ![c] = [NoArgs EXCEPT !.start_from = start_from,
                                                !.total_duration = total_duration,
                                                !.query = q]]
  /\ query' = [query EXCEPT ![c] = q]
  /\ UNCHANGED << requests, ret >>

\* Loop head taken: set the window and issue withdraw_history (401-405).
WithdrawIssue(c) ==
  /\ pc[c] = "loop"
  /\ op[c] = "withdraw_history_quick"
  /\ WithdrawContinue(current_period_end[c], end_at[c])
  /\ LET q == WithdrawWindowQuery(query[c], current_period_start[c],
                                  current_period_end[c])
     IN /\ query' = [query EXCEPT ![c] = q]
        /\ requests' = [requests EXCEPT ![c] =
             Append(@, Request("GET", SAPI_V1_CAPITAL_WITHDRAW_HISTORY, q))]
  /\ pc' = [pc EXCEPT ![c] = "await"]
  /\ UNCHANGED << op, args, result, end_at, current_period_start,
                  current_period_end, ret >>

\* withdraw_history returned Ok(records): 405-417. When the subtraction of
\* line 416 panics the call unwinds after the push.
WithdrawReplyOk(c, records) ==
  /\ pc[c] = "await"
  /\ op[c] = "withdraw_history_quick"
  /\ requests' = [requests EXCEPT ![c] = Replied(@, OkReply(records))]
  /\ LET interval == Days(DEFAULT_WALLET_HISTORY_QUERY_INTERVAL_DAYS)
         period_start == Sub(current_period_start[c], interval)
         period_end == Sub(current_period_end[c], interval)
     IN IF period_start = Overflowed \/ period_end = Overflowed
          THEN /\ result' = [result EXCEPT ![c] = << >>]
               /\ pc' = [pc EXCEPT ![c] = "panicked"]
               /\ UNCHANGED << current_period_start, current_period_end >>
          ELSE /\ result' = [result EXCEPT ![c] =
                    WithdrawPush(@, current_period_start[c], current_period_end[c],
                                records)]
               /\ current_period_start' =
                    [current_period_start EXCEPT ![c] = period_start]
               /\ current_period_end' = [current_period_end EXCEPT ![c] = period_end]
               /\ pc' = [pc EXCEPT ![c] = "loop"]
  /\ UNCHANGED << op, args, query, end_at, ret >>

\* withdraw_history returned Err: the `?` of line 405 returns it.
WithdrawReplyErr(c) ==
  /\ pc[c] = "await"
  /\ op[c] = "withdraw_history_quick"
  /\ requests' = [requests EXCEPT ![c] = Replied(@, ErrReply)]
  /\ ret' = [ret EXCEPT ![c] = Err("remote")]
  /\ result' = [result EXCEPT ![c] = << >>]
  /\ pc' = [pc EXCEPT ![c] = "done"]
  /\ UNCHANGED << op, args, query, end_at, current_period_start,
                  current_period_end >>

\* Loop head not taken: Ok(result) (401, 420).
WithdrawReturn(c) ==
  /\ pc[c] = "loop"
  /\ op[c] = "withdraw_history_quick"
  /\ ~WithdrawContinue(current_period_end[c], end_at[c])
  /\ ret' = [ret EXCEPT ![c] = Ok(result[c])]
  /\ pc' = [pc EXCEPT ![c] = "done"]
  /\ UNCHANGED << op, args, query, result, end_at, current_period_start,
                  current_period_end, requests >>

\* The caller drops the future while it is suspended at the await of line 405.
WithdrawCancel(c) ==
  /\ pc[c] = "await"
  /\ op[c] = "withdraw_history_quick"
  /\ result' = [result EXCEPT ![c] = << >>]
  /\ pc' = [pc EXCEPT ![c] = "dropped"]
  /\ UNCHANGED << op, args, query, end_at, current_period_start,
                  current_period_end, requests, ret >>

(* ------------------ submit_uae_deposit_questionnaire ------------------- *)

\* Variant: the validation with && in place of ||.
UaeInvalidBoth(deposit_originator, receive_from) ==
  deposit_originator = 0 /\ receive_from = 0

\* The validation of wallet.rs 157.
UaeInvalid(deposit_originator, receive_from) ==
  deposit_originator = 0 \/ receive_from = 0

\* wallet.rs 157-161: the request is rejected before any network call.
UaeReject(c, deposit_originator, receive_from) ==
  /\ pc[c] = "idle"
  /\ UaeInvalid(deposit_originator, receive_from)
  /\ op' = [op EXCEPT ![c] = "submit_uae_deposit_questionnaire"]
  /\ args' = [args EXCEPT ![c] = [NoArgs EXCEPT !.deposit_originator = deposit_originator,
                                                !.receive_from = receive_from]]
  /\ ret' = [ret EXCEPT ![c] =
       Err("Questionnaire must include depositOriginator and receiveFrom")]
  /\ pc' = [pc EXCEPT ![c] = "done"]
  /\ UNCHANGED << query, result, end_at, current_period_start,
                  current_period_end, requests >>

\* wallet.rs 163-176: the payload is built and put_signed_p is issued.
\* (Serializing the questionnaire, integers and optional strings, does not
\* fail, so the map_err of line 165 has no step of its own.)
UaeSubmit(c, deposit_originator, receive_from) ==
  /\ pc[c] = "idle"
  /\ ~UaeInvalid(deposit_originator, receive_from)
  /\ op' = [op EXCEPT ![c] = "submit_uae_deposit_questionnaire"]
  /\ args' = [args EXCEPT ![c] = [NoArgs EXCEPT !.deposit_originator = deposit_originator,
                                                !.receive_from = receive_from]]
  /\ requests' = [requests EXCEPT ![c] =
       Append(@, Request("PUT", UAE_ENDPOINT,
                         [deposit_originator |-> deposit_originator,
                          receive_from |-> receive_from]))]
  /\ pc' = [pc EXCEPT ![c] = "await"]
  /\ UNCHANGED << query, result, end_at, current_period_start,
                  current_period_end, ret >>

\* put_signed_p completed: its result is the call's result (176).
UaeReply(c, ok) ==
  /\ pc[c] = "await"
  /\ op[c] = "submit_uae_deposit_questionnaire"
  /\ requests' = [requests EXCEPT ![c] =
       Replied(@, IF ok THEN OkReply(<< >>) ELSE ErrReply)]
  /\ ret' = [ret EXCEPT ![c] = IF ok THEN Ok(<< >>) ELSE Err("remote")]
  /\ pc' = [pc EXCEPT ![c] = "done"]
  /\ UNCHANGED << op, args, query, result, end_at, current_period_start,
                  current_period_end >>

(* ---------------------------- specification ---------------------------- *)

\* The steps of call c.
Step(c) ==
  \/ \E q \in Queries, sf \in {None} \cup {Some(t) : t \in Instants},
        td \in {None} \cup {Some(d) : d \in Durations}, now \in Clock :
       DepositCall(c, q, sf, td, now)
  \/ DepositIssue(c)
  \/ \E records \in Pages : DepositReplyOk(c, records)
  \/ DepositReplyErr(c)
  \/ DepositReturn(c)
  \/ DepositCancel(c)
  \/ \E q \in Queries, sf \in {None} \cup {Some(t) : t \in Instants},
        td \in {None} \cup {Some(d) : d \in Durations}, now \in Clock :
       WithdrawCall(c, q, sf, td, now)
  \/ WithdrawIssue(c)
  \/ \E records \in Pages : WithdrawReplyOk(c, records)
  \/ WithdrawReplyErr(c)
  \/ WithdrawReturn(c)
  \/ WithdrawCancel(c)
  \/ \E a \in Codes, b \in Codes : UaeReject(c, a, b)
  \/ \E a \in Codes, b \in Codes : UaeSubmit(c, a, b)
  \/ \E ok \in BOOLEAN : UaeReply(c, ok)

\* One call at a time on the wallet.
Next == Step(1)

Spec == Init /\ [][Next]_vars

(* ------------------------- concurrent calls ---------------------------- *)

\* Arguments of the calls that run concurrently on one wallet.
ConcQueries == { [coin |-> Some("BTC"), start_time |-> b, end_time |-> b] :
                  b \in CallerBounds \ {None} }

ConcStarts == { Some([d |-> 200, ms |-> 5, ns |-> 0]),
                Some([d |-> 20756, ms |-> 43200123, ns |-> 7]),
                Some([d |-> MIN_UTC_DAY + 100, ms |-> 0, ns |-> 0]) }

ConcSpans ==
  { None, Some(Days(2 * DEFAULT_WALLET_HISTORY_QUERY_INTERVAL_DAYS)),
    Some(Days(DEFAULT_WALLET_HISTORY_QUERY_INTERVAL_DAYS + 1)) }

\* The steps of history call c when several calls share the wallet (&self).
ConcStep(c) ==
  \/ \E q \in ConcQueries, sf \in ConcStarts, td \in ConcSpans, now \in Clock :
       DepositCall(c, q, sf, td, now)
  \/ DepositIssue(c)
  \/ \E records \in Pages : DepositReplyOk(c, records)
  \/ DepositReplyErr(c)
  \/ DepositReturn(c)
  \/ DepositCancel(c)
  \/ \E q \in ConcQueries, sf \in ConcStarts, td \in ConcSpans, now \in Clock :
       WithdrawCall(c, q, sf, td, now)
  \/ WithdrawIssue(c)
  \/ \E records \in Pages : WithdrawReplyOk(c, records)
  \/ WithdrawReplyErr(c)
  \/ WithdrawReturn(c)
  \/ WithdrawCancel(c)

\* The calls interleave at their awaits.
ConcNext == \E c \in CallIds : ConcStep(c)

SpecConc == Init /\ [][ConcNext]_vars

(* ------------------- a call its caller drives to the end --------------- *)

\* The steps of history call c after its entry, cancellation excluded.
LiveRun(c) ==
  \/ DepositIssue(c)
  \/ \E records \in Pages : DepositReplyOk(c, records)
  \/ DepositReplyErr(c)
  \/ DepositReturn(c)
  \/ WithdrawIssue(c)
  \/ \E records \in Pages : WithdrawReplyOk(c, records)
  \/ WithdrawReplyErr(c)
  \/ WithdrawReturn(c)

LiveNext ==
  \/ \E q \in ConcQueries, sf \in {None} \cup {Some(t) : t \in Instants},
        td \in {None} \cup {Some(d) : d \in Durations}, now \in Clock :
       DepositCall(1, q, sf, td, now)
  \/ \E q \in ConcQueries, sf \in {None} \cup {Some(t) : t \in Instants},
        td \in {None} \cup {Some(d) : d \in Durations}, now \in Clock :
       WithdrawCall(1, q, sf, td, now)
  \/ LiveRun(1)

\* The caller awaits the future to its end and every issued query is
\* answered: a step of the call that stays possible is taken.
SpecLive == Init /\ [][LiveNext]_vars /\ WF_vars(LiveRun(1))

(* =============================== claims ================================ *)

HistoryOps == {"deposit_history_quick", "withdraw_history_quick"}

HistoryCalls == {c \in CallIds : op[c] \in HistoryOps}

\* The instants start_from may stand for: the argument, or a reading of now.
Starts(c) ==
  IF IsSome(args[c].start_from) THEN {args[c].start_from[1]} ELSE Clock

\* The total_duration in force: the argument, or 90 days.
SpanOf(c) ==
  UnwrapOr(args[c].total_duration, Days(DEFAULT_WALLET_HISTORY_QUERY_INTERVAL_DAYS))

\* dur is k x 90 days exactly, k >= 1.
IsWholeSpan(dur) ==
  /\ dur.ns = 0 /\ dur.ms = 0 /\ dur.d > 0
  /\ dur.d % DEFAULT_WALLET_HISTORY_QUERY_INTERVAL_DAYS = 0

\* The instant i intervals of 90 days before T.
Back(T, i) == [T EXCEPT !.d = @ - i * DEFAULT_WALLET_HISTORY_QUERY_INTERVAL_DAYS]

\* The unsigned millisecond field a query carries for instant t.
Field(t) == Some(AsU64(TimestampMillis(t)))

\* Request r carries the i-th window counted back from T.
CarriesWindow(r, T, i) ==
  /\ r.params.start_time = Field(Back(T, i))
  /\ r.params.end_time = Field(Back(T, i - 1))

\* The requests of a log that were answered with at least one record.
NonEmptyReplies(log) ==
  SelectSeq(log, LAMBDA r : r.reply.status = "ok" /\ r.reply.records # << >>)

Failed(log) == \E i \in 1 .. Len(log) : log[i].reply.status = "err"

\* The positions of a call that has run to its end.
Over == {"done", "panicked"}

IsPrefix(s, t) == Len(s) <= Len(t) /\ \A i \in 1 .. Len(s) : s[i] = t[i]

\* C1: with total_duration = k x 90 days (omitted: k = 1) a call never
\* issues more than k queries, the i-th query carries the window
\* [T - i*90d, T - (i-1)*90d] in its millisecond fields, and a call that is
\* over with none of its queries failed has issued exactly k of them.
C1_WindowCoverage ==
  \A c \in HistoryCalls :
    IsWholeSpan(SpanOf(c)) =>
      LET k == SpanOf(c).d \div DEFAULT_WALLET_HISTORY_QUERY_INTERVAL_DAYS
          log == requests[c]
      IN /\ Len(log) <= k
         /\ \E T \in Starts(c) : \A i \in 1 .. Len(log) : CarriesWindow(log[i], T, i)
         /\ pc[c] \in Over /\ ~Failed(log) => Len(log) = k

\* C2: once a window query has failed the call has returned that error and
\* no batch; a call that returned Ok had no failed query and returns one
\* batch for every window answered with records.
C2_AbortOnError ==
  \A c \in HistoryCalls :
    /\ Failed(requests[c]) =>
         pc[c] = "done" /\ ret[c].status = "err" /\ ret[c].err = "remote"
           /\ ret[c].value = << >>
    /\ ret[c].status = "ok" =>
         ~Failed(requests[c])
           /\ Len(ret[c].value) = Len(NonEmptyReplies(requests[c]))

\* The second window failed after the first had returned records.
C2_Witness ==
  \E c \in HistoryCalls :
    /\ Len(requests[c]) = 2
    /\ requests[c][1].reply.status = "ok" /\ requests[c][1].reply.records # << >>
    /\ requests[c][2].reply.status = "err"
    /\ ret[c].status = "err"

\* C3: the list a running call holds or a call returns with Ok holds, in
\* order, exactly the pages of the windows answered with at least one
\* record, so no batch is empty; and a call returns Ok only when the window after its last query ends at or
\* before the cutoff, whatever pages were empty.
C3_EmptyPageSuppression ==
  \A c \in HistoryCalls :
    LET kept == NonEmptyReplies(requests[c])
        list == IF ret[c].status = "ok" THEN ret[c].value ELSE result[c]
    IN /\ ret[c].status # "err" /\ pc[c] \notin {"dropped", "panicked"} =>
            /\ Len(list) = Len(kept)
            /\ \A i \in 1 .. Len(list) :
                 list[i].records = kept[i].reply.records /\ list[i].records # << >>
       /\ ret[c].status = "ok" =>
            \E T \in Starts(c) :
              LET n == Len(requests[c])
              IN /\ ~After(Back(T, n), Minus(T, SpanOf(c)))
                 /\ n > 0 => After(Back(T, n - 1), Minus(T, SpanOf(c)))

\* A call returned Ok with one batch after an empty first page and a
\* non-empty second page.
C3_Witness ==
  \E c \in HistoryCalls :
    /\ ret[c].status = "ok"
    /\ Len(requests[c]) >= 2
    /\ requests[c][1].reply.records = << >>
    /\ requests[c][2].reply.records # << >>
    /\ Len(ret[c].value) = 1

\* Every batch of list is later than the one after it and is tagged with
\* the bounds of the query that produced its records.
OrderedAndTagged(list, log) ==
  LET kept == NonEmptyReplies(log)
  IN /\ \A i \in 1 .. Len(list) : \A j \in 1 .. Len(list) :
          i < j => After(list[i].end_at, list[j].end_at)
     /\ Len(list) <= Len(kept)
     /\ \A i \in 1 .. Len(list) :
          /\ Field(list[i].start_at) = kept[i].params.start_time
          /\ Field(list[i].end_at) = kept[i].params.end_time
          /\ list[i].records = kept[i].reply.records

\* C4: the batches, accumulated or returned, are ordered from the most
\* recent window to the oldest and each carries the bounds of its own
\* query; while a call runs its list only grows at the end.
C4_Ordering ==
  /\ [](\A c \in HistoryCalls :
          /\ OrderedAndTagged(result[c], requests[c])
          /\ ret[c].status = "ok" => OrderedAndTagged(ret[c].value, requests[c]))
  /\ [][\A c \in CallIds :
          /\ pc[c] \in {"loop", "await"} /\ pc'[c] \in {"loop", "await"}
               => IsPrefix(result[c], result'[c])
          /\ pc[c] = "loop" /\ pc'[c] = "done" => ret'[c].value = result[c]]_vars

\* A call returned two batches.
C4_Witness ==
  \E c \in HistoryCalls : ret[c].status = "ok" /\ Len(ret[c].value) >= 2

\* C5: every query of the windowed iterator carries start_time < end_time
\* and end_time - start_time <= 90 days in its unsigned millisecond fields.
C5_WindowBounds ==
  \A c \in HistoryCalls : \A i \in 1 .. Len(requests[c]) :
    LET q == requests[c][i].params
    IN /\ U64Less(q.start_time[1], q.end_time[1])
       /\ U64SpanAtMost(q.start_time[1], q.end_time[1],
                        Days(DEFAULT_WALLET_HISTORY_QUERY_INTERVAL_DAYS))

\* C6: a questionnaire with deposit_originator = 0 or receive_from = 0 is
\* answered with the validation error and no request is ever issued for it;
\* a PUT is issued only with both fields non-zero.
C6_ValidationFailsFast ==
  \A c \in CallIds :
    op[c] = "submit_uae_deposit_questionnaire" =>
      /\ (args[c].deposit_originator = 0 \/ args[c].receive_from = 0) =>
           /\ requests[c] = << >>
           /\ pc[c] = "done"
           /\ ret[c].status = "err" /\ ret[c].err # "remote"
      /\ \A i \in 1 .. Len(requests[c]) :
           /\ requests[c][i].method = "PUT"
           /\ requests[c][i].params.deposit_originator # 0
           /\ requests[c][i].params.receive_from # 0
           /\ requests[c][i].params.deposit_originator = args[c].deposit_originator
           /\ requests[c][i].params.receive_from = args[c].receive_from

\* A questionnaire with only receive_from = 0 was rejected.
C6_Witness ==
  \E c \in CallIds :
    /\ op[c] = "submit_uae_deposit_questionnaire"
    /\ args[c].deposit_originator # 0 /\ args[c].receive_from = 0
    /\ ret[c].status = "err" /\ requests[c] = << >>

\* The requests of a log whose reply is still awaited.
InFlight(log) == {i \in 1 .. Len(log) : log[i].reply.status = "pending"}

\* C8: a call has at most one window query in flight, every query before
\* its latest was answered successfully, the call waits exactly while its
\* latest query is unanswered, and a query is issued, the window written
\* into the query and the cursor moved only while no query is in flight or,
\* for the cursor, on the reply.
C8_Sequential ==
  /\ [](\A c \in HistoryCalls :
          LET log == requests[c]
          IN /\ Cardinality(InFlight(log)) <= 1
             /\ \A i \in 1 .. Len(log) - 1 : log[i].reply.status = "ok"
             /\ pc[c] = "await" <=> InFlight(log) # {} /\ pc[c] # "dropped")
  /\ [][\A c \in CallIds :
          /\ requests'[c] # requests[c] /\ Len(requests'[c]) > Len(requests[c])
               => InFlight(requests[c]) = {} /\ pc[c] \in {"idle", "loop"}
          /\ query'[c] # query[c] => InFlight(requests[c]) = {}
          /\ current_period_end'[c] # current_period_end[c]
               => pc[c] \in {"idle", "await"}]_vars

\* The second window is in flight after the first was answered.
C8_Witness ==
  \E c \in HistoryCalls :
    /\ pc[c] = "await"
    /\ Len(requests[c]) = 2
    /\ requests[c][1].reply.status = "ok"
    /\ requests[c][2].reply.status = "pending"

\* C9: no two queries of one call carry the same bounds, and a failed
\* query is the last query of its call.
C9_SingleAttempt ==
  \A c \in HistoryCalls :
    LET log == requests[c]
    IN /\ \A i \in 1 .. Len(log) : \A j \in 1 .. Len(log) :
            i < j => \/ log[i].params.start_time # log[j].params.start_time
                     \/ log[i].params.end_time # log[j].params.end_time
       /\ \A i \in 1 .. Len(log) : log[i].reply.status = "err" => i = Len(log)

\* The first window of a span of at least two windows failed and the call
\* is over.
C9_Witness ==
  \E c \in HistoryCalls :
    /\ SpanOf(c).d >= 2 * DEFAULT_WALLET_HISTORY_QUERY_INTERVAL_DAYS
    /\ Len(requests[c]) = 1
    /\ requests[c][1].reply.status = "err"
    /\ pc[c] = "done"

\* C10: a call dropped at its await has returned nothing and holds no
\* batch, stays dropped, issues no further query, and its drop changes no
\* other call's list or return value.
C10_CancelCommitsNothing ==
  /\ [](\A c \in HistoryCalls : pc[c] = "dropped" => ret[c] = NoRet /\ result[c] = << >>)
  /\ [][\A c \in CallIds :
          /\ pc[c] = "dropped" =>
               pc'[c] = "dropped" /\ requests'[c] = requests[c] /\ ret'[c] = NoRet
          /\ pc[c] = "await" /\ pc'[c] = "dropped" =>
               \A o \in CallIds \ {c} : ret'[o] = ret[o] /\ result'[o] = result[o]]_vars

\* A call was dropped during its second window, after a first window that
\* returned records.
C10_Witness ==
  \E c \in HistoryCalls :
    /\ pc[c] = "dropped"
    /\ Len(requests[c]) = 2
    /\ requests[c][1].reply.records # << >>

\* The endpoint of a history method.
PathOf(method) ==
  IF method = "deposit_history_quick"
    THEN "/sapi/v1/capital/deposit/hisrec"
    ELSE "/sapi/v1/capital/withdraw/history"

\* The indices of the requests of a log answered with at least one record.
KeptIndices(log) ==
  SelectSeq([i \in 1 .. Len(log) |-> i],
            LAMBDA i : log[i].reply.status = "ok" /\ log[i].reply.records # << >>)

\* The batches a call started at T holds after the replies of log.
BatchesAlone(log, T) ==
  LET idx == KeptIndices(log)
  IN [k \in 1 .. Len(idx) |->
        [start_at |-> Back(T, idx[k]), end_at |-> Back(T, idx[k] - 1),
         records |-> log[idx[k]].reply.records]]

\* Call c, started at T, is where a call running alone with the same
\* arguments and the same replies would be: a call alone panics at entry
\* when its cutoff or its first window start is no DateTime<Utc>, and on a
\* successful reply when the next window start is none.
AsAlone(c, T) ==
  LET log == requests[c]
      n == Len(log)
      cutoff == Minus(T, SpanOf(c))
      entered == InRange(cutoff) /\ InRange(Back(T, 1))
  IN /\ pc[c] # "panicked" \/ n > 0 => entered
     /\ pc[c] = "panicked" =>
          /\ ret[c] = NoRet /\ result[c] = << >>
          /\ IF n = 0 THEN ~entered
               ELSE log[n].reply.status = "ok" /\ ~InRange(Back(T, n + 1))
     /\ pc[c] = "loop" => InRange(Back(T, n + 1))
     /\ \A i \in 1 .. n :
          /\ log[i].method = "GET" /\ log[i].path = PathOf(op[c])
          /\ log[i].params = [args[c].query EXCEPT !.start_time = Field(Back(T, i)),
                                                   !.end_time = Field(Back(T, i - 1))]
          /\ After(Back(T, i - 1), cutoff)
     /\ pc[c] \in {"loop", "await"} => result[c] = BatchesAlone(log, T) /\ ret[c] = NoRet
     /\ pc[c] = "loop" => current_period_end[c] = Back(T, n)
     /\ pc[c] = "dropped" => ret[c] = NoRet
     /\ pc[c] = "done" /\ Failed(log) => ret[c] = Err("remote")
     /\ pc[c] = "done" /\ ~Failed(log) =>
          ret[c] = Ok(BatchesAlone(log, T)) /\ ~After(Back(T, n), cutoff)

\* C11: under every interleaving of concurrent calls, each call has issued
\* the windows and holds or has returned the result of a call running alone
\* with its arguments and replies (or has panicked where it would), and a step of one call changes nothing
\* of another call.
C11_Independent ==
  /\ [](\A c \in HistoryCalls : \E T \in Starts(c) : AsAlone(c, T))
  /\ [][\A c \in CallIds : \A o \in CallIds \ {c} :
          pc'[c] # pc[c] =>
            /\ pc'[o] = pc[o] /\ op'[o] = op[o] /\ args'[o] = args[o]
            /\ query'[o] = query[o] /\ result'[o] = result[o]
            /\ end_at'[o] = end_at[o] /\ requests'[o] = requests[o]
            /\ current_period_start'[o] = current_period_start[o]
            /\ current_period_end'[o] = current_period_end[o]
            /\ ret'[o] = ret[o]]_vars

\* Two calls with different arguments are both awaiting their second window.
C11_Witness ==
  /\ pc[1] = "await" /\ pc[2] = "await"
  /\ Len(requests[1]) = 2 /\ Len(requests[2]) = 2
  /\ args[1] # args[2]
  /\ requests[1][1].reply.records # << >>

\* The cutoffs start_from - total_duration of call c.
Cutoffs(c) == {Minus(T, SpanOf(c)) : T \in Starts(c)}

\* C12: at the loop head a query is issued exactly when current_period_end
\* is after start_from - total_duration and Ok is returned exactly when it
\* is not; a call that returned Ok has its cursor at or before the cutoff;
\* and a call that was started and whose queries are all answered
\* eventually returns.
C12_Terminates ==
  /\ [][\A c \in CallIds : \A cutoff \in Cutoffs(c) :
          /\ pc[c] = "loop" /\ pc'[c] # "loop" =>
               IF After(current_period_end[c], cutoff)
                 THEN pc'[c] = "await" /\ Len(requests'[c]) = Len(requests[c]) + 1
                 ELSE pc'[c] = "done" /\ ret'[c] = Ok(result[c])
                        /\ requests'[c] = requests[c]
          /\ Len(requests'[c]) > Len(requests[c]) /\ op[c] \in HistoryOps =>
               pc[c] = "loop" /\ After(current_period_end[c], cutoff)]_vars
  /\ [](\A c \in HistoryCalls : \A cutoff \in Cutoffs(c) :
          ret[c].status = "ok" => ~After(current_period_end[c], cutoff))
  /\ \A c \in CallIds : (pc[c] # "idle") ~> (pc[c] = "done")

\* The instant t moved by n days, the finer parts kept.
ShiftDays(t, n) == [d |-> t.d + n, ms |-> t.ms, ns |-> t.ns]

\* C13: while a call runs its window is exactly 90 days long; each
\* successful iteration moves both cursors back by exactly 90 days and no
\* other step moves them; and in the queries issued the end of each window
\* equals the start of the window before it, which it never reaches past.
C13_CursorStep ==
  /\ [](\A c \in HistoryCalls :
          /\ pc[c] \in {"loop", "await"} =>
               /\ current_period_end[c] =
                    ShiftDays(current_period_start[c],
                              DEFAULT_WALLET_HISTORY_QUERY_INTERVAL_DAYS)
               /\ After(current_period_end[c], current_period_start[c])
          /\ \A i \in 1 .. Len(requests[c]) - 1 :
               /\ requests[c][i + 1].params.end_time = requests[c][i].params.start_time
               /\ requests[c][i + 1].params.start_time # requests[c][i].params.start_time
               /\ requests[c][i + 1].params.start_time # requests[c][i].params.end_time)
  /\ [][\A c \in CallIds :
          /\ pc[c] = "await" /\ pc'[c] = "loop" =>
               /\ current_period_start[c] =
                    ShiftDays(current_period_start'[c],
                              DEFAULT_WALLET_HISTORY_QUERY_INTERVAL_DAYS)
               /\ current_period_end[c] =
                    ShiftDays(current_period_end'[c],
                              DEFAULT_WALLET_HISTORY_QUERY_INTERVAL_DAYS)
               /\ After(current_period_end[c], current_period_end'[c])
               /\ current_period_end'[c] = current_period_start[c]
          /\ pc[c] # "idle" /\ ~(pc[c] = "await" /\ pc'[c] = "loop") =>
               /\ current_period_start'[c] = current_period_start[c]
               /\ current_period_end'[c] = current_period_end[c]]_vars

\* A call has stepped back twice and issued its third window.
C13_Witness ==
  \E c \in HistoryCalls :
    /\ Len(requests[c]) = 3
    /\ requests[c][3].params.end_time = requests[c][2].params.start_time
    /\ pc[c] = "await"

\* dur is positive and not a whole number of 90-day intervals.
IsBrokenSpan(dur) == After(dur, Days(0)) /\ ~IsWholeSpan(dur)

\* C14: with a positive total_duration that is not a multiple of 90 days a
\* call that is over with none of its queries failed has queried ceil(total_duration / 90d) windows of
\* 90 days each, from T back to T - ceil * 90d, and its last window, sent
\* unclipped, ends strictly after the cutoff and starts strictly before it.
C14_Overshoot ==
  \A c \in HistoryCalls :
    IsBrokenSpan(SpanOf(c)) /\ pc[c] \in Over /\ ~Failed(requests[c]) =>
      \E T \in Starts(c) :
        LET log == requests[c]
            n == Len(log)
            cutoff == Minus(T, SpanOf(c))
        IN /\ n = SpanOf(c).d \div DEFAULT_WALLET_HISTORY_QUERY_INTERVAL_DAYS + 1
           /\ After(Back(T, n - 1), cutoff)
           /\ After(cutoff, Back(T, n))
           /\ log[1].params.end_time = Field(T)
           /\ log[n].params.start_time = Field(Back(T, n))
           /\ log[n].params.end_time = Field(Back(T, n - 1))

\* C16: with a zero or negative total_duration a call issues no query and
\* returns Ok with an empty list at its first step after entry.
C16_NoWindow ==
  /\ [](\A c \in HistoryCalls :
          ~After(SpanOf(c), Days(0)) =>
            /\ requests[c] = << >>
            /\ pc[c] \in {"loop", "done"}
            /\ pc[c] = "done" => ret[c] = Ok(<< >>))
  /\ [][\A c \in HistoryCalls :
          ~After(SpanOf(c), Days(0)) /\ pc[c] = "loop" /\ pc'[c] # "loop" =>
            pc'[c] = "done" /\ ret'[c] = Ok(<< >>)]_vars

\* The outcome of a window's query.
Outcome(r) ==
  CASE r.reply.status = "err" -> "failure"
    [] r.reply.status = "pending" -> "pending"
    [] r.reply.records = << >> -> "empty"
    [] OTHER -> "non-empty"

\* The first n queries of both logs were answered with the same outcomes.
SameOutcomes(la, lb, n) ==
  /\ n <= Len(la) /\ n <= Len(lb)
  /\ \A j \in 1 .. n : Outcome(la[j]) = Outcome(lb[j]) /\ Outcome(la[j]) # "pending"

\* The (start_at, end_at) tags of a list of batches.
Tags(list) == [k \in 1 .. Len(list) |-> << list[k].start_at, list[k].end_at >>]

Shorter(la, lb) == IF Len(la) <= Len(lb) THEN Len(la) ELSE Len(lb)

\* C15: a deposit_history_quick call and a withdraw_history_quick call with
\* the same arguments issue the same window after the same outcomes, and
\* once both are over after the same outcomes they have issued the same
\* number of queries, have both returned or both panicked, and agree in
\* Ok/Err, in the number of batches and in every batch's tags.
C15_SameIterator ==
  \A a \in CallIds : \A b \in CallIds :
    op[a] = "deposit_history_quick" /\ op[b] = "withdraw_history_quick"
      /\ args[a] = args[b] =>
        LET la == requests[a]
            lb == requests[b]
        IN /\ \A i \in 1 .. Shorter(la, lb) :
                SameOutcomes(la, lb, i - 1) => la[i].params = lb[i].params
           /\ pc[a] \in Over /\ pc[b] \in Over
                /\ SameOutcomes(la, lb, Shorter(la, lb)) =>
                  /\ pc[a] = pc[b]
                  /\ Len(la) = Len(lb)
                  /\ ret[a].status = ret[b].status
                  /\ Len(ret[a].value) = Len(ret[b].value)
                  /\ Tags(ret[a].value) = Tags(ret[b].value)

\* A deposit call and a withdraw call with the same arguments have both
\* returned Ok after an empty and a non-empty window.
C15_Witness ==
  \E a \in CallIds : \E b \in CallIds :
    /\ op[a] = "deposit_history_quick" /\ op[b] = "withdraw_history_quick"
    /\ args[a] = args[b]
    /\ ret[a].status = "ok" /\ ret[b].status = "ok"
    /\ Len(requests[a]) = 2
    /\ SameOutcomes(requests[a], requests[b], 2)
    /\ Outcome(requests[a][1]) = "empty" /\ Outcome(requests[a][2]) = "non-empty"

\* C17: every query a call sends is the caller's query with only
\* start_time and end_time replaced by the window's bounds: the other
\* fields are the caller's, and bounds the caller had set are not sent.
C17_OnlyBoundsOverwritten ==
  /\ [](\A c \in HistoryCalls : \E T \in Starts(c) :
          /\ \A i \in 1 .. Len(requests[c]) :
               LET sent == requests[c][i].params
               IN /\ sent.coin = args[c].query.coin
                  /\ sent.start_time = Field(Back(T, i))
                  /\ sent.end_time = Field(Back(T, i - 1))
                  /\ IsSome(args[c].query.start_time) =>
                       sent.start_time # args[c].query.start_time
                  /\ IsSome(args[c].query.end_time) =>
                       sent.end_time # args[c].query.end_time
          /\ query[c].coin = args[c].query.coin)
  /\ [][\A c \in CallIds :
          pc[c] # "idle" => query'[c].coin = query[c].coin]_vars

\* A caller's query with a coin and its own bounds set was sent for two
\* windows.
C17_Witness ==
  \E c \in HistoryCalls :
    /\ IsSome(args[c].query.coin) /\ IsSome(args[c].query.start_time)
    /\ IsSome(args[c].query.end_time)
    /\ Len(requests[c]) = 2

====
